---- MODULE Spec2Model ----
(***************************************************************************)
(* duinobot/firmata_boards.py: the extended sysex command decoders, the    *)
(* robot state registry they write, and the life cycle of the two board    *)
(* sessions (FirmataSerialBoard, FirmataTCPBoard).                         *)
(*                                                                         *)
(* Python attribute look-up is modelled as it happens: an attribute that   *)
(* __init__ assigns on self lives in the instance, every other one is      *)
(* found on the class, where all instances share it.  The stores below are *)
(* therefore indexed by their owner, the class or one session.             *)
(* The program is single threaded: a constructor runs to its end before    *)
(* any other call of the owner is made.                                    *)
(***************************************************************************)
EXTENDS Integers, Sequences, FiniteSets, TLC

\* ------------------------------------------------------------- bounds
\* The class allocates range(128) slots per scalar list; the model keeps
\* the first NumRobots of them.
NumRobots == 3
\* len(self.analog) and len(self.digital) of the configured layout.
NumAnalogPins == 2
NumDigitalPins == 3
\* Calls the owner makes (constructions, iterate, accessors, close) plus
\* what the peers do (frames sent during initialization, connections closed),
\* in one run.
MaxSteps == 3

\* ---------------------------------------------------- program constants
SYSEX_PING == 3
ANALOG_INPUT_REQUEST == 6
DIGITAL_INPUT_REQUEST == 7
BROADCAST_REPORT == 9
PIN_COMMANDS == 15
PIN_GET_ANALOG == 1
PIN_GET_DIGITAL == 2
\* A sysex data byte carries seven bits (0-127/0x00-0x7F).
ByteMax == 127

RobotIds == 0 .. (NumRobots - 1)
Sessions == {"serial", "tcp"}
Class == "class"
Owners == {Class} \cup Sessions

\* The attributes FirmataSerialBoard defines in its class body, and the ones
\* both __init__ methods assign on self.
ClassAttrs == {"nearest_obstacle", "analog_value", "digital_value", "live_robots"}
InstanceAttrs == {"_pin_analog_value", "_pin_digital_value"}

\* A bug that would give every session its own copy of every attribute.
AttrOwnerPerInstance(self, attr) == self
\* A bug that would keep every attribute on the class.
AttrOwnerAllClass(self, attr) == Class
\* Where self.<attr> is found: in the instance if __init__ assigned it there,
\* else on the class.
AttrOwner(self, attr) == IF attr \in InstanceAttrs THEN self ELSE Class

VARIABLES
    nearest_obstacle,    \* [Owners -> [RobotIds -> Int]]
    analog_value,        \* [Owners -> [RobotIds -> Int]]
    digital_value,       \* [Owners -> [RobotIds -> Int]]
    live_robots,         \* [Owners -> [RobotIds -> {0,1}]]
    _pin_analog_value,   \* [Owners -> dict robot -> list of ints]
    _pin_digital_value,  \* [Owners -> dict robot -> list of ints]
    state,               \* [Sessions -> session state]
    outcome,             \* [Sessions -> how the constructor ended]
    layout,              \* [Sessions -> the layout argument, then self._layout]
    handlers,            \* [Sessions -> dict command id -> decoder name]
    drained,             \* the sessions that read a frame from their transport
    peer,                \* [Sessions -> the far end of the transport]
    process,             \* [status, code]: the interpreter process
    steps,               \* owner calls made and frames drained so far
    referenced,          \* robot ids named by a frame processed so far
    lastOp               \* the last frame delivered or accessor called

vars == <<nearest_obstacle, analog_value, digital_value, live_robots,
          _pin_analog_value, _pin_digital_value, state, outcome, layout, handlers,
          drained, peer, process, steps, referenced, lastOp>>

\* ------------------------------------------------------------ registry
\* The six stores as one value, so that a decoder is a function of it.
Registry ==
    [nearest_obstacle |-> nearest_obstacle, analog_value |-> analog_value,
     digital_value |-> digital_value, live_robots |-> live_robots,
     _pin_analog_value |-> _pin_analog_value,
     _pin_digital_value |-> _pin_digital_value]

\* What a caller reads through a session: board.nearest_obstacle[robot], ...
ReadNearestObstacle(self, robot) ==
    nearest_obstacle[AttrOwner(self, "nearest_obstacle")][robot]
ReadAnalogValue(self, robot) ==
    analog_value[AttrOwner(self, "analog_value")][robot]
ReadDigitalValue(self, robot) ==
    digital_value[AttrOwner(self, "digital_value")][robot]
ReadLiveRobots(self, robot) ==
    live_robots[AttrOwner(self, "live_robots")][robot]
\* board._pin_analog_value / board._pin_digital_value: the session's dicts.
PinAnalogDict(self) == _pin_analog_value[AttrOwner(self, "_pin_analog_value")]
PinDigitalDict(self) == _pin_digital_value[AttrOwner(self, "_pin_digital_value")]

EmptyDict == [r \in {} |-> <<>>]
\* A bug that would allocate one slot too many.
Minus1ListLong(n) == [i \in 1 .. (n + 1) |-> -1]
\* [-1] * n
Minus1List(n) == [i \in 1 .. n |-> -1]

\* data[i] of Python, zero based; callers test InRange first (IndexError).
InRange(seq, i) == i >= 0 /\ i < Len(seq)
At(seq, i) == seq[i + 1]
SetAt(seq, i, v) == [seq EXCEPT ![i + 1] = v]

Ok(reg) == [reg |-> reg, err |-> "none"]
Raise(reg, e) == [reg |-> reg, err |-> e]

\* A bug that would shift by six bits, so that the two parts overlap.
Decode14Shift6(most_significant, least_significant) ==
    most_significant * (2 ^ 6) + least_significant
\* A bug that would shift by a whole byte.
Decode14Shift8(most_significant, least_significant) ==
    most_significant * (2 ^ 8) + least_significant
\* (most_significant << 7) + least_significant
Decode14(most_significant, least_significant) ==
    most_significant * (2 ^ 7) + least_significant

\* ------------------------------------------------------------ decoders
\* Each decoder is a function of the registry and the payload; it yields the
\* registry it leaves and the exception it raises ("none" if it returns).

\* A bug that would take the robot id from the wrong payload byte.
_handle_sysex_ping_wrong_byte(self, reg, data) ==
    IF ~InRange(data, 2) THEN Raise(reg, "IndexError")
    ELSE LET robot == At(data, 1)
             o == AttrOwner(self, "nearest_obstacle")
         IN  IF robot \notin RobotIds THEN Raise(reg, "IndexError")
             ELSE Ok([reg EXCEPT !.nearest_obstacle[o][robot] =
                          Decode14(At(data, 0), At(data, 1))])
_handle_sysex_ping(self, reg, data) ==
    IF ~InRange(data, 2) THEN Raise(reg, "IndexError")
    ELSE LET most_significant == At(data, 0)
             least_significant == At(data, 1)
             robot == At(data, 2)
             o == AttrOwner(self, "nearest_obstacle")
         IN  IF robot \notin RobotIds THEN Raise(reg, "IndexError")
             ELSE Ok([reg EXCEPT !.nearest_obstacle[o][robot] =
                          Decode14(most_significant, least_significant)])

\* A bug that would store the legacy analog value in the ping list (copy of
\* the decoder above).
_handle_sysex_analog_into_ping(self, reg, data) ==
    IF ~InRange(data, 2) THEN Raise(reg, "IndexError")
    ELSE LET most_significant == At(data, 0)
             least_significant == At(data, 1)
             robot == At(data, 2)
             o == AttrOwner(self, "nearest_obstacle")
         IN  IF robot \notin RobotIds THEN Raise(reg, "IndexError")
             ELSE Ok([reg EXCEPT !.nearest_obstacle[o][robot] =
                          Decode14(most_significant, least_significant)])
_handle_sysex_analog(self, reg, data) ==
    IF ~InRange(data, 2) THEN Raise(reg, "IndexError")
    ELSE LET most_significant == At(data, 0)
             least_significant == At(data, 1)
             robot == At(data, 2)
             o == AttrOwner(self, "analog_value")
         IN  IF robot \notin RobotIds THEN Raise(reg, "IndexError")
             ELSE Ok([reg EXCEPT !.analog_value[o][robot] =
                          Decode14(most_significant, least_significant)])

\* A bug that would read the payload as [robotId, value].
_handle_sysex_digital_swapped(self, reg, data) ==
    IF ~InRange(data, 1) THEN Raise(reg, "IndexError")
    ELSE LET value == At(data, 1)
             robot == At(data, 0)
             o == AttrOwner(self, "digital_value")
         IN  IF robot \notin RobotIds THEN Raise(reg, "IndexError")
             ELSE Ok([reg EXCEPT !.digital_value[o][robot] = value])
_handle_sysex_digital(self, reg, data) ==
    IF ~InRange(data, 1) THEN Raise(reg, "IndexError")
    ELSE LET value == At(data, 0)
             robot == At(data, 1)
             o == AttrOwner(self, "digital_value")
         IN  IF robot \notin RobotIds THEN Raise(reg, "IndexError")
             ELSE Ok([reg EXCEPT !.digital_value[o][robot] = value])

\* A bug that would toggle the flag instead of setting it.
_handle_sysex_broadcast_toggle(self, reg, data) ==
    IF ~InRange(data, 0) THEN Raise(reg, "IndexError")
    ELSE LET robot == At(data, 0)
             o == AttrOwner(self, "live_robots")
         IN  IF robot \notin RobotIds THEN Raise(reg, "IndexError")
             ELSE Ok([reg EXCEPT !.live_robots[o][robot] = 1 - @])
_handle_sysex_broadcast(self, reg, data) ==
    IF ~InRange(data, 0) THEN Raise(reg, "IndexError")
    ELSE LET robot == At(data, 0)
             o == AttrOwner(self, "live_robots")
         IN  IF robot \notin RobotIds THEN Raise(reg, "IndexError")
             ELSE Ok([reg EXCEPT !.live_robots[o][robot] = 1])

\* A bug that would store a fresh list on every call (d[robotid] = [-1] * n).
pin_analog_value_fresh(self, reg, robotid) ==
    LET o == AttrOwner(self, "_pin_analog_value")
    IN  [reg EXCEPT !._pin_analog_value[o] =
             [r \in (DOMAIN @) \cup {robotid} |->
                 IF r = robotid THEN Minus1List(NumAnalogPins) ELSE @[r]]]
\* self._pin_analog_value.setdefault(robotid, [-1] * len(self.analog)): the
\* registry after the call; the list returned is the one stored under robotid.
pin_analog_value(self, reg, robotid) ==
    LET o == AttrOwner(self, "_pin_analog_value")
        d == reg._pin_analog_value[o]
    IN  IF robotid \in DOMAIN d THEN reg
        ELSE [reg EXCEPT !._pin_analog_value[o] =
                  [r \in (DOMAIN d) \cup {robotid} |->
                      IF r = robotid THEN Minus1List(NumAnalogPins) ELSE d[r]]]

\* A bug that would store a fresh list on every call.
pin_digital_value_fresh(self, reg, robotid) ==
    LET o == AttrOwner(self, "_pin_digital_value")
    IN  [reg EXCEPT !._pin_digital_value[o] =
             [r \in (DOMAIN @) \cup {robotid} |->
                 IF r = robotid THEN Minus1List(NumDigitalPins) ELSE @[r]]]
\* A bug that would size the digital array by the analog pins (copy of the
\* accessor above).
pin_digital_value_analog_len(self, reg, robotid) ==
    LET o == AttrOwner(self, "_pin_digital_value")
        d == reg._pin_digital_value[o]
    IN  IF robotid \in DOMAIN d THEN reg
        ELSE [reg EXCEPT !._pin_digital_value[o] =
                  [r \in (DOMAIN d) \cup {robotid} |->
                      IF r = robotid THEN Minus1List(NumAnalogPins) ELSE d[r]]]
\* self._pin_digital_value.setdefault(robotid, [-1] * len(self.digital))
pin_digital_value(self, reg, robotid) ==
    LET o == AttrOwner(self, "_pin_digital_value")
        d == reg._pin_digital_value[o]
    IN  IF robotid \in DOMAIN d THEN reg
        ELSE [reg EXCEPT !._pin_digital_value[o] =
                  [r \in (DOMAIN d) \cup {robotid} |->
                      IF r = robotid THEN Minus1List(NumDigitalPins) ELSE d[r]]]

\* A bug that would take every subtype but PIN_GET_ANALOG for PIN_GET_DIGITAL
\* (else: in place of elif).
_handle_sysex_pin_commands_else(self, reg, data) ==
    IF ~InRange(data, 0) THEN Raise(reg, "IndexError")
    ELSE IF At(data, 0) = PIN_GET_ANALOG THEN
        IF ~InRange(data, 4) THEN Raise(reg, "IndexError")
        ELSE LET o == AttrOwner(self, "_pin_analog_value")
                 got == pin_analog_value(self, reg, At(data, 4))
                 lst == got._pin_analog_value[o][At(data, 4)]
             IN  IF ~InRange(lst, At(data, 3)) THEN Raise(got, "IndexError")
                 ELSE Ok([got EXCEPT !._pin_analog_value[o][At(data, 4)] =
                              SetAt(lst, At(data, 3),
                                    Decode14(At(data, 1), At(data, 2)))])
    ELSE
        IF ~InRange(data, 3) THEN Raise(reg, "IndexError")
        ELSE LET o == AttrOwner(self, "_pin_digital_value")
                 got == pin_digital_value(self, reg, At(data, 3))
                 lst == got._pin_digital_value[o][At(data, 3)]
             IN  IF ~InRange(lst, At(data, 2)) THEN Raise(got, "IndexError")
                 ELSE Ok([got EXCEPT !._pin_digital_value[o][At(data, 3)] =
                              SetAt(lst, At(data, 2), At(data, 1))])
\* The right-hand side is evaluated first, then the accessor (which may
\* allocate), then the store into the list (which may raise).
_handle_sysex_pin_commands(self, reg, data) ==
    IF ~InRange(data, 0) THEN Raise(reg, "IndexError")
    ELSE IF At(data, 0) = PIN_GET_ANALOG THEN
        IF ~InRange(data, 4) THEN Raise(reg, "IndexError")
        ELSE LET most_significant == At(data, 1)
                 least_significant == At(data, 2)
                 pin == At(data, 3)
                 robot == At(data, 4)
                 o == AttrOwner(self, "_pin_analog_value")
                 got == pin_analog_value(self, reg, robot)
                 lst == got._pin_analog_value[o][robot]
             IN  IF ~InRange(lst, pin) THEN Raise(got, "IndexError")
                 ELSE Ok([got EXCEPT !._pin_analog_value[o][robot] =
                              SetAt(lst, pin,
                                    Decode14(most_significant, least_significant))])
    ELSE IF At(data, 0) = PIN_GET_DIGITAL THEN
        IF ~InRange(data, 3) THEN Raise(reg, "IndexError")
        ELSE LET value == At(data, 1)
                 pin == At(data, 2)
                 robot == At(data, 3)
                 o == AttrOwner(self, "_pin_digital_value")
                 got == pin_digital_value(self, reg, robot)
                 lst == got._pin_digital_value[o][robot]
             IN  IF ~InRange(lst, pin) THEN Raise(got, "IndexError")
                 ELSE Ok([got EXCEPT !._pin_digital_value[o][robot] =
                              SetAt(lst, pin, value)])
    ELSE Ok(reg)

\* --------------------------------------------------------- dispatcher
\* setup_layout: the five bindings add_cmd_handler makes.
FiveHandlers ==
    [c \in {SYSEX_PING, ANALOG_INPUT_REQUEST, DIGITAL_INPUT_REQUEST,
            BROADCAST_REPORT, PIN_COMMANDS} |->
        CASE c = SYSEX_PING -> "_handle_sysex_ping"
          [] c = ANALOG_INPUT_REQUEST -> "_handle_sysex_analog"
          [] c = DIGITAL_INPUT_REQUEST -> "_handle_sysex_digital"
          [] c = BROADCAST_REPORT -> "_handle_sysex_broadcast"
          [] c = PIN_COMMANDS -> "_handle_sysex_pin_commands"]

NoHandlers == [c \in {} |-> ""]

Invoke(name, self, reg, data) ==
    CASE name = "_handle_sysex_ping" -> _handle_sysex_ping(self, reg, data)
      [] name = "_handle_sysex_analog" -> _handle_sysex_analog(self, reg, data)
      [] name = "_handle_sysex_digital" -> _handle_sysex_digital(self, reg, data)
      [] name = "_handle_sysex_broadcast" -> _handle_sysex_broadcast(self, reg, data)
      [] name = "_handle_sysex_pin_commands" ->
             _handle_sysex_pin_commands(self, reg, data)

\* The base engine's frame reader: the handler registered for the frame's
\* identifier is called with the payload; a frame with no handler is dropped.
Dispatch(self, table, reg, frame) ==
    IF frame.cmd \in DOMAIN table
    THEN Invoke(table[frame.cmd], self, reg, frame.data)
    ELSE Ok(reg)

\* -------------------------------------------------------------- frames
\* The payloads the peers send: (msb, lsb) pairs and digital values from both
\* ends of the seven-bit range; the first and the last robot id (the ids
\* between them are never named); the first and the last pin of the layout
\* and the index one past it.
ValuePairs == {<<1, 0>>, <<ByteMax, ByteMax>>}
DigitalValues == {1, ByteMax}
RobotsSent == {0, NumRobots - 1}
PinsSent(n) == {0, n - 1, n}

Frame(cmd, data) == [cmd |-> cmd, data |-> data]
NoFrame == Frame(-1, <<>>)

PingFrames ==
    {Frame(SYSEX_PING, <<p[1], p[2], r>>) : p \in ValuePairs, r \in RobotsSent}
AnalogFrames ==
    {Frame(ANALOG_INPUT_REQUEST, <<p[1], p[2], r>>) : p \in ValuePairs, r \in RobotsSent}
DigitalFrames ==
    {Frame(DIGITAL_INPUT_REQUEST, <<v, r>>) : v \in DigitalValues, r \in RobotsSent}
BroadcastFrames ==
    {Frame(BROADCAST_REPORT, <<r>>) : r \in RobotsSent}
PinAnalogFrames ==
    {Frame(PIN_COMMANDS, <<PIN_GET_ANALOG, p[1], p[2], pin, r>>) :
        p \in ValuePairs, pin \in PinsSent(NumAnalogPins), r \in RobotsSent}
PinDigitalFrames ==
    {Frame(PIN_COMMANDS, <<PIN_GET_DIGITAL, v, pin, r>>) :
        v \in DigitalValues, pin \in PinsSent(NumDigitalPins), r \in RobotsSent}
\* An identifier no handler is registered for, and pin commands of a subtype
\* that is neither PIN_GET_ANALOG nor PIN_GET_DIGITAL.
UnknownFrames ==
    {Frame(5, <<1, 0, 0>>), Frame(PIN_COMMANDS, <<3, 1, 0, 0, 0>>),
     Frame(PIN_COMMANDS, <<0>>)}
\* Payloads shorter than the command's layout.
ShortFrames ==
    {Frame(SYSEX_PING, <<1, 0>>), Frame(BROADCAST_REPORT, <<>>),
     Frame(PIN_COMMANDS, <<PIN_GET_ANALOG, 1, 0, 0>>),
     Frame(PIN_COMMANDS, <<>>)}
Frames ==
    PingFrames \cup AnalogFrames \cup DigitalFrames \cup BroadcastFrames
    \cup PinAnalogFrames \cup PinDigitalFrames \cup UnknownFrames \cup ShortFrames

\* The robot id a frame names: the byte at the position of robotId in the
\* payload layout of its command, when the payload reaches that far.
RobotPos(frame) ==
    CASE frame.cmd \in {SYSEX_PING, ANALOG_INPUT_REQUEST} -> 2
      [] frame.cmd = DIGITAL_INPUT_REQUEST -> 1
      [] frame.cmd = BROADCAST_REPORT -> 0
      [] frame.cmd = PIN_COMMANDS /\ InRange(frame.data, 0)
             /\ At(frame.data, 0) = PIN_GET_ANALOG -> 4
      [] frame.cmd = PIN_COMMANDS /\ InRange(frame.data, 0)
             /\ At(frame.data, 0) = PIN_GET_DIGITAL -> 3
      [] OTHER -> -1
FrameRobots(frame) ==
    IF InRange(frame.data, RobotPos(frame))
    THEN {At(frame.data, RobotPos(frame))} ELSE {}

\* ---------------------------------------------------------------- Init
Running == [status |-> "running", code |-> 0]
\* n numbers the operation within the run.
Op(op, self, frame, err, n) ==
    [op |-> op, self |-> self, frame |-> frame, err |-> err, n |-> n]

Init ==
    /\ nearest_obstacle = [o \in Owners |-> [i \in RobotIds |-> -1]]
    /\ analog_value = [o \in Owners |-> [i \in RobotIds |-> -1]]
    /\ digital_value = [o \in Owners |-> [i \in RobotIds |-> -1]]
    /\ live_robots = [o \in Owners |-> [i \in RobotIds |-> 0]]
    /\ _pin_analog_value = [o \in Owners |-> EmptyDict]
    /\ _pin_digital_value = [o \in Owners |-> EmptyDict]
    /\ state = [s \in Sessions |-> "Unopened"]
    /\ outcome = [s \in Sessions |-> "none"]
    /\ layout = [s \in Sessions |-> "unset"]
    /\ handlers = [s \in Sessions |-> NoHandlers]
    /\ drained = {}
    /\ peer = [s \in Sessions |-> "absent"]
    /\ process = Running
    /\ steps = 0
    /\ referenced = {}
    /\ lastOp = Op("start", "none", NoFrame, "none", 0)

\* A constructor is running: the single thread is inside __init__.
Busy == \E t \in Sessions : state[t] \in {"Connecting", "Initializing"}

SetRegistry(reg) ==
    /\ nearest_obstacle' = reg.nearest_obstacle
    /\ analog_value' = reg.analog_value
    /\ digital_value' = reg.digital_value
    /\ live_robots' = reg.live_robots
    /\ _pin_analog_value' = reg._pin_analog_value
    /\ _pin_digital_value' = reg._pin_digital_value

RegistryUnchanged ==
    UNCHANGED <<nearest_obstacle, analog_value, digital_value, live_robots,
                _pin_analog_value, _pin_digital_value>>

\* ------------------------------------------------------------- actions
\* __init__ up to the opening of the transport: the two per-pin dicts are
\* created empty on the instance.
Construct(self, supplied) ==
    /\ process.status = "running" /\ ~Busy
    /\ steps < MaxSteps
    /\ state[self] = "Unopened"
    /\ state' = [state EXCEPT ![self] = "Connecting"]
    /\ layout' = [layout EXCEPT ![self] = IF supplied THEN "set" ELSE "none"]
    /\ _pin_analog_value' = [_pin_analog_value EXCEPT ![self] = EmptyDict]
    /\ _pin_digital_value' = [_pin_digital_value EXCEPT ![self] = EmptyDict]
    /\ steps' = steps + 1
    /\ UNCHANGED <<nearest_obstacle, analog_value, digital_value, live_robots,
                   outcome, handlers, drained, peer, process, referenced, lastOp>>

\* A bug that would call exit(1) whatever debug says.
OpenFailsIgnoresDebug(self, debug) ==
    /\ process.status = "running"
    /\ state[self] = "Connecting"
    /\ state' = [state EXCEPT ![self] = "Failed"]
    /\ outcome' = [outcome EXCEPT ![self] = "exit"]
    /\ process' = [status |-> "exited", code |-> 1]
    /\ RegistryUnchanged
    /\ UNCHANGED <<layout, handlers, drained, peer, steps, referenced, lastOp>>
\* serial.SerialException / socket.error while opening: the diagnostic is
\* printed, then the error is re-raised (debug) or exit(1) is called.
OpenFails(self, debug) ==
    /\ process.status = "running"
    /\ state[self] = "Connecting"
    /\ state' = [state EXCEPT ![self] = "Failed"]
    /\ outcome' = [outcome EXCEPT ![self] = IF debug THEN "raised" ELSE "exit"]
    /\ process' = IF debug THEN process ELSE [status |-> "exited", code |-> 1]
    /\ RegistryUnchanged
    /\ UNCHANGED <<layout, handlers, drained, peer, steps, referenced, lastOp>>

OpenSucceeds(self) ==
    /\ process.status = "running"
    /\ state[self] = "Connecting"
    /\ state' = [state EXCEPT ![self] = "Initializing"]
    /\ peer' = [peer EXCEPT ![self] = "open"]
    /\ RegistryUnchanged
    /\ UNCHANGED <<outcome, layout, handlers, drained, process, steps, referenced, lastOp>>

\* The sessions whose transport is a _WrapTCPSocket.
SocketSessions == {"tcp"}

\* The far end of the TCP connection closes or resets it.
PeerCloses(self) ==
    /\ process.status = "running"
    /\ self \in SocketSessions
    /\ state[self] \in {"Initializing", "Ready"} /\ peer[self] = "open"
    /\ steps < MaxSteps
    /\ peer' = [peer EXCEPT ![self] = "closed"]
    /\ steps' = steps + 1
    /\ RegistryUnchanged
    /\ UNCHANGED <<state, outcome, layout, handlers, drained, process,
                   referenced, lastOp>>

\* _WrapTCPSocket.inWaiting: select() with a zero timeout names the socket
\* ready when a byte is pending and also once the far end has closed or reset
\* the connection (the read that is ready is the end of the stream).  The
\* serial transport reports the bytes pending.
inWaiting(self, pending) ==
    IF pending \/ (self \in SocketSessions /\ peer[self] = "closed") THEN 1 ELSE 0

\* A bug that would leave PIN_COMMANDS without its handler.
setup_layout_four(self) ==
    /\ process.status = "running"
    /\ state[self] = "Initializing" /\ layout[self] = "set"
    /\ handlers[self] = NoHandlers
    /\ handlers' = [handlers EXCEPT ![self] =
                       [c \in (DOMAIN FiveHandlers) \ {PIN_COMMANDS} |-> FiveHandlers[c]]]
    /\ RegistryUnchanged
    /\ UNCHANGED <<state, outcome, layout, drained, peer, process, steps, referenced, lastOp>>
\* if layout: self.setup_layout(layout)
setup_layout(self) ==
    /\ process.status = "running"
    /\ state[self] = "Initializing" /\ layout[self] = "set"
    /\ handlers[self] = NoHandlers
    /\ handlers' = [handlers EXCEPT ![self] = FiveHandlers]
    /\ RegistryUnchanged
    /\ UNCHANGED <<state, outcome, layout, drained, peer, process, steps, referenced, lastOp>>

\* A bug that would start the discovery whatever the layout argument is.
auto_setup_query_always(self) ==
    /\ process.status = "running"
    /\ state[self] = "Initializing" /\ layout[self] \in {"none", "set"}
    /\ handlers[self] = NoHandlers
    /\ layout' = [layout EXCEPT ![self] = "query"]
    /\ RegistryUnchanged
    /\ UNCHANGED <<state, outcome, handlers, drained, peer, process, steps,
                   referenced, lastOp>>
\* else: self.auto_setup() -- the base class asks the peer for its layout.
auto_setup_query(self) ==
    /\ process.status = "running"
    /\ state[self] = "Initializing" /\ layout[self] = "none"
    /\ handlers[self] = NoHandlers
    /\ layout' = [layout EXCEPT ![self] = "query"]
    /\ RegistryUnchanged
    /\ UNCHANGED <<state, outcome, handlers, drained, peer, process, steps,
                   referenced, lastOp>>

\* One frame read from the transport and dispatched; the history variables
\* record it.
Deliver(self, frame, out) ==
    /\ SetRegistry(out.reg)
    /\ drained' = drained \cup {self}
    /\ steps' = steps + 1
    /\ referenced' = referenced \cup FrameRobots(frame)
    /\ lastOp' = Op("frame", self, frame, out.err, steps + 1)

\* The frames the peers send while the layout is being discovered.
DiscoveryFrames == PingFrames \cup BroadcastFrames

\* auto_setup reads the peer's answer through the frame reader: what arrives
\* before the answer is dispatched with the handler table as it is then.
auto_setup_iterate(self, frame) ==
    /\ process.status = "running"
    /\ state[self] = "Initializing" /\ layout[self] = "query"
    /\ peer[self] = "open"
    /\ steps < MaxSteps
    /\ LET out == Dispatch(self, handlers[self], Registry, frame)
       IN  /\ SetRegistry(out.reg)
           /\ drained' = drained \cup {self}
           /\ steps' = steps + 1
           /\ lastOp' = Op("discovery_frame", self, frame, out.err, steps + 1)
           /\ state' = IF out.err = "none" THEN state
                       ELSE [state EXCEPT ![self] = "Aborted"]
           /\ outcome' = IF out.err = "none" THEN outcome
                         ELSE [outcome EXCEPT ![self] = out.err]
    /\ UNCHANGED <<layout, handlers, peer, process, referenced>>

\* The end of auto_setup, once nothing is left to read: with the peer's
\* answer setup_layout runs on the layout it describes, without one the
\* constructor raises.
auto_setup(self, answered) ==
    /\ process.status = "running"
    /\ state[self] = "Initializing" /\ layout[self] = "query"
    /\ inWaiting(self, FALSE) = 0
    /\ IF answered
       THEN /\ handlers' = [handlers EXCEPT ![self] = FiveHandlers]
            /\ layout' = [layout EXCEPT ![self] = "discovered"]
            /\ UNCHANGED <<state, outcome>>
       ELSE /\ state' = [state EXCEPT ![self] = "Aborted"]
            /\ outcome' = [outcome EXCEPT ![self] = "IOError"]
            /\ UNCHANGED <<handlers, layout>>
    /\ RegistryUnchanged
    /\ UNCHANGED <<drained, peer, process, steps, referenced, lastOp>>

\* The session is at the drain loop that ends its initialization.
AtDrainLoop(self) ==
    /\ state[self] = "Initializing"
    /\ layout[self] \in {"set", "discovered"} /\ handlers[self] # NoHandlers

\* while self.bytes_available(): self.iterate()  -- inside the constructor; an
\* exception of a decoder leaves the constructor.
DrainIterate(self, frame) ==
    /\ process.status = "running"
    /\ AtDrainLoop(self) /\ peer[self] = "open"
    /\ inWaiting(self, TRUE) = 1
    /\ steps < MaxSteps
    /\ LET out == Dispatch(self, handlers[self], Registry, frame)
       IN  /\ Deliver(self, frame, out)
           /\ state' = IF out.err = "none" THEN state
                       ELSE [state EXCEPT ![self] = "Aborted"]
           /\ outcome' = IF out.err = "none" THEN outcome
                         ELSE [outcome EXCEPT ![self] = out.err]
    /\ UNCHANGED <<layout, handlers, peer, process>>

\* The far end has closed: the socket is named ready, read() returns "" and
\* iterate() returns at once, having read nothing: the loop comes back to
\* the state it was in.
DrainEmptyRead(self) ==
    /\ process.status = "running"
    /\ state[self] = "Initializing" /\ layout[self] \in {"query", "set", "discovered"}
    /\ layout[self] = "query" \/ handlers[self] # NoHandlers
    /\ peer[self] = "closed"
    /\ inWaiting(self, FALSE) = 1
    /\ UNCHANGED vars

\* bytes_available() is false: the constructor returns.
InitDone(self) ==
    /\ process.status = "running"
    /\ AtDrainLoop(self)
    /\ inWaiting(self, FALSE) = 0
    /\ state' = [state EXCEPT ![self] = "Ready"]
    /\ outcome' = [outcome EXCEPT ![self] = "returned"]
    /\ RegistryUnchanged
    /\ UNCHANGED <<layout, handlers, drained, peer, process, steps, referenced, lastOp>>

\* The owner calls iterate() on a ready session.
Iterate(self, frame) ==
    /\ process.status = "running" /\ ~Busy
    /\ state[self] = "Ready" /\ peer[self] = "open"
    /\ steps < MaxSteps
    /\ Deliver(self, frame, Dispatch(self, handlers[self], Registry, frame))
    /\ UNCHANGED <<state, outcome, layout, handlers, peer, process>>

\* The owner calls board.pin_analog_value(robotid).
CallPinAnalogValue(self, robotid) ==
    /\ process.status = "running" /\ ~Busy
    /\ state[self] \in {"Ready", "Closed"}
    /\ steps < MaxSteps
    /\ SetRegistry(pin_analog_value(self, Registry, robotid))
    /\ steps' = steps + 1
    /\ lastOp' = Op("pin_analog_value", self, Frame(-1, <<robotid>>), "none", steps + 1)
    /\ UNCHANGED <<state, outcome, layout, handlers, drained, peer, process, referenced>>

\* The owner calls board.pin_digital_value(robotid).
CallPinDigitalValue(self, robotid) ==
    /\ process.status = "running" /\ ~Busy
    /\ state[self] \in {"Ready", "Closed"}
    /\ steps < MaxSteps
    /\ SetRegistry(pin_digital_value(self, Registry, robotid))
    /\ steps' = steps + 1
    /\ lastOp' = Op("pin_digital_value", self, Frame(-1, <<robotid>>), "none", steps + 1)
    /\ UNCHANGED <<state, outcome, layout, handlers, drained, peer, process, referenced>>

\* A bug that would drop the handlers when the session is closed.
CloseForgetsHandlers(self) ==
    /\ process.status = "running" /\ ~Busy
    /\ steps < MaxSteps
    /\ state[self] = "Ready"
    /\ state' = [state EXCEPT ![self] = "Closed"]
    /\ handlers' = [handlers EXCEPT ![self] = NoHandlers]
    /\ steps' = steps + 1
    /\ RegistryUnchanged
    /\ UNCHANGED <<outcome, layout, drained, peer, process, referenced, lastOp>>
\* The owner closes the session: the transport is released.
Close(self) ==
    /\ process.status = "running" /\ ~Busy
    /\ steps < MaxSteps
    /\ state[self] = "Ready"
    /\ state' = [state EXCEPT ![self] = "Closed"]
    /\ steps' = steps + 1
    /\ RegistryUnchanged
    /\ UNCHANGED <<outcome, layout, handlers, drained, peer, process, referenced, lastOp>>

Next ==
    \/ \E s \in Sessions, supplied \in BOOLEAN : Construct(s, supplied)
    \/ \E s \in Sessions, debug \in BOOLEAN : OpenFails(s, debug)
    \/ \E s \in Sessions : OpenSucceeds(s)
    \/ \E s \in Sessions : PeerCloses(s)
    \/ \E s \in Sessions : setup_layout(s)
    \/ \E s \in Sessions : auto_setup_query(s)
    \/ \E s \in Sessions, f \in DiscoveryFrames : auto_setup_iterate(s, f)
    \/ \E s \in Sessions, answered \in BOOLEAN : auto_setup(s, answered)
    \/ \E s \in Sessions, f \in Frames : DrainIterate(s, f)
    \/ \E s \in Sessions : DrainEmptyRead(s)
    \/ \E s \in Sessions : InitDone(s)
    \/ \E s \in Sessions, f \in Frames : Iterate(s, f)
    \/ \E s \in Sessions, r \in RobotsSent : CallPinAnalogValue(s, r)
    \/ \E s \in Sessions, r \in RobotsSent : CallPinDigitalValue(s, r)
    \/ \E s \in Sessions : Close(s)

Spec == Init /\ [][Next]_vars

\* ------------------------------------------------- the 14-bit decoders
\* The three decoders that rebuild a 14-bit value, each applied once to every
\* (msb, lsb) of the seven-bit range by a serial session that has just been
\* constructed with a layout.
InitDecode ==
    /\ nearest_obstacle = [o \in Owners |-> [i \in RobotIds |-> -1]]
    /\ analog_value = [o \in Owners |-> [i \in RobotIds |-> -1]]
    /\ digital_value = [o \in Owners |-> [i \in RobotIds |-> -1]]
    /\ live_robots = [o \in Owners |-> [i \in RobotIds |-> 0]]
    /\ _pin_analog_value = [o \in Owners |-> EmptyDict]
    /\ _pin_digital_value = [o \in Owners |-> EmptyDict]
    /\ state = [s \in Sessions |-> IF s = "serial" THEN "Ready" ELSE "Unopened"]
    /\ outcome = [s \in Sessions |-> IF s = "serial" THEN "returned" ELSE "none"]
    /\ layout = [s \in Sessions |-> IF s = "serial" THEN "set" ELSE "unset"]
    /\ handlers = [s \in Sessions |-> IF s = "serial" THEN FiveHandlers ELSE NoHandlers]
    /\ drained = {}
    /\ peer = [s \in Sessions |-> IF s = "serial" THEN "open" ELSE "absent"]
    /\ process = Running
    /\ steps = 1
    /\ referenced = {}
    /\ lastOp = Op("start", "none", NoFrame, "none", 0)

DecodePing(msb, lsb) ==
    Iterate("serial", Frame(SYSEX_PING, <<msb, lsb, 0>>))
DecodeAnalog(msb, lsb) ==
    Iterate("serial", Frame(ANALOG_INPUT_REQUEST, <<msb, lsb, 0>>))
DecodePinAnalog(msb, lsb) ==
    Iterate("serial", Frame(PIN_COMMANDS, <<PIN_GET_ANALOG, msb, lsb, 0, 0>>))

\* One decoder call per run.
NextDecode ==
    /\ lastOp.op = "start"
    /\ \/ \E msb \in 0 .. ByteMax, lsb \in 0 .. ByteMax : DecodePing(msb, lsb)
       \/ \E msb \in 0 .. ByteMax, lsb \in 0 .. ByteMax : DecodeAnalog(msb, lsb)
       \/ \E msb \in 0 .. ByteMax, lsb \in 0 .. ByteMax : DecodePinAnalog(msb, lsb)

SpecDecode == InitDecode /\ [][NextDecode]_vars

\* ------------------------------------------------- frames in sequence
\* Full payloads that name a pin of the layout.
WellFormedFrames ==
    PingFrames \cup AnalogFrames \cup DigitalFrames \cup BroadcastFrames
    \cup {f \in PinAnalogFrames : At(f.data, 3) < NumAnalogPins}
    \cup {f \in PinDigitalFrames : At(f.data, 2) < NumDigitalPins}

\* A serial session that has just been constructed with a layout decodes two
\* well-formed frames, one after the other.
DecodeInTurn(f) ==
    /\ lastOp.n < 3
    /\ Iterate("serial", f)

NextPairs == \E f \in WellFormedFrames : DecodeInTurn(f)

SpecPairs == InitDecode /\ [][NextPairs]_vars

\* =============================================================== claims
\* The step just taken delivered a frame / called an accessor.
FrameStep == lastOp' # lastOp /\ lastOp'.op = "frame"
SevenBit(data) == \A i \in 1 .. Len(data) : data[i] \in 0 .. ByteMax

\* C1: after a Ping (0x03) frame [msb, lsb, robotId] with all bytes in 0..127,
\* nearestObstacle[robotId] equals (msb << 7) + lsb, read through any session,
\* whatever it held before.
C1_PingSetsNearestObstacle ==
    (/\ lastOp.op = "frame" /\ lastOp.frame.cmd = SYSEX_PING
     /\ Len(lastOp.frame.data) = 3 /\ SevenBit(lastOp.frame.data))
    => /\ lastOp.err = "none"
       /\ \A s \in Sessions :
            ReadNearestObstacle(s, lastOp.frame.data[3])
                = lastOp.frame.data[1] * 128 + lastOp.frame.data[2]

\* Ping(msb=1, lsb=0) for the last robot id has been decoded: 128 is stored.
C1_Witness ==
    /\ lastOp.op = "frame"
    /\ lastOp.frame = Frame(SYSEX_PING, <<1, 0, NumRobots - 1>>)
    /\ ReadNearestObstacle(lastOp.self, NumRobots - 1) = 128
    /\ lastOp.n = MaxSteps

\* The list a call of the accessor would return: the stored one, or a new one
\* of n slots holding -1.
ListView(dict, robot, n) ==
    IF robot \in DOMAIN dict THEN dict[robot] ELSE [i \in 1 .. n |-> -1]

\* The step stored value v at slot pin of the list of robot in dict: the list
\* is there afterwards with exactly n slots, slot pin holds v and every other
\* slot holds what it held before (-1 if the list was not allocated yet).
StoredAt(before, after, robot, pin, v, n) ==
    /\ robot \in DOMAIN after
    /\ Len(after[robot]) = n
    /\ after[robot][pin + 1] = v
    /\ \A i \in 1 .. n :
         i # pin + 1 => after[robot][i] = ListView(before, robot, n)[i]

\* C2: a Pin-commands (0x0F) frame with a pin index inside the layout stores
\* (msb<<7)+lsb (subtype 0x01) or value (subtype 0x02) at that pin of the
\* decoding session's array for robotId; the array keeps exactly the configured
\* length and every other slot keeps its content.
C2_PinCommandStoresValue ==
    [][\A s \in Sessions, f \in Frames :
        (/\ FrameStep /\ lastOp'.self = s /\ lastOp'.frame = f
         /\ f.cmd = PIN_COMMANDS /\ SevenBit(f.data))
        => LET d == f.data
           IN  /\ (Len(d) = 5 /\ d[1] = PIN_GET_ANALOG /\ d[4] < NumAnalogPins)
                  => /\ lastOp'.err = "none"
                     /\ StoredAt(PinAnalogDict(s), PinAnalogDict(s)', d[5], d[4],
                                 d[2] * 128 + d[3], NumAnalogPins)
               /\ (Len(d) = 4 /\ d[1] = PIN_GET_DIGITAL /\ d[3] < NumDigitalPins)
                  => /\ lastOp'.err = "none"
                     /\ StoredAt(PinDigitalDict(s), PinDigitalDict(s)', d[4], d[3],
                                 d[2], NumDigitalPins)]_vars

\* PinCommand(GET_DIGITAL, value=1, last pin) was decoded into an array whose
\* first slot an earlier frame had written.
C2_Witness ==
    /\ lastOp.op = "frame" /\ lastOp.err = "none"
    /\ \E r \in RobotIds :
         /\ lastOp.frame =
                Frame(PIN_COMMANDS, <<PIN_GET_DIGITAL, 1, NumDigitalPins - 1, r>>)
         /\ r \in DOMAIN PinDigitalDict(lastOp.self)
         /\ Len(PinDigitalDict(lastOp.self)[r]) = NumDigitalPins
         /\ PinDigitalDict(lastOp.self)[r][NumDigitalPins] = 1
         /\ PinDigitalDict(lastOp.self)[r][1] = ByteMax

\* C3: a Broadcast report (0x09) frame [robotId] sets isLive[robotId], and a
\* flag that is set stays set in every later state, whatever frame, accessor
\* call, construction or close follows.
C3_IsLiveMonotonic ==
    /\ []((/\ lastOp.op = "frame" /\ lastOp.frame.cmd = BROADCAST_REPORT
           /\ Len(lastOp.frame.data) = 1 /\ SevenBit(lastOp.frame.data))
          => /\ lastOp.err = "none"
             /\ \A s \in Sessions : ReadLiveRobots(s, lastOp.frame.data[1]) = 1)
    /\ [][\A s \in Sessions, r \in RobotIds :
            ReadLiveRobots(s, r) = 1 => ReadLiveRobots(s, r)' = 1]_vars

\* A robot was reported live and a Ping for the same robot was decoded later.
C3_Witness ==
    \E r \in RobotIds :
        /\ \A s \in Sessions : ReadLiveRobots(s, r) = 1
        /\ lastOp.op = "frame" /\ lastOp.frame = Frame(SYSEX_PING, <<1, 0, r>>)

\* C4: a robot id that no processed frame has named still has the defaults:
\* nearestObstacle, legacyAnalogValue and legacyDigitalValue are -1 and isLive
\* is false.
C4_DefaultsUntilReferenced ==
    \A r \in RobotIds \ referenced, s \in Sessions :
        /\ ReadNearestObstacle(s, r) = -1
        /\ ReadAnalogValue(s, r) = -1
        /\ ReadDigitalValue(s, r) = -1
        /\ ReadLiveRobots(s, r) = 0

\* Frames for one robot were decoded, and another robot is still unnamed.
C4_Witness ==
    /\ \E r \in referenced :
         ReadNearestObstacle("serial", r) # -1 /\ ReadLiveRobots("serial", r) = 1
    /\ \E r \in RobotsSent : r \notin referenced

\* The step just taken was a call of accessor op by session s for robot r.
AccessorStep(op, s, r) ==
    /\ lastOp' # lastOp
    /\ lastOp'.op = op /\ lastOp'.self = s /\ lastOp'.frame.data = <<r>>

\* The accessor returned the list for robot r: a new one of exactly n slots
\* of -1 if none was stored, else the stored one with its content; the lists
\* of the other robots are as before.
Returned(before, after, r, n) ==
    /\ DOMAIN after = DOMAIN before \cup {r}
    /\ after[r] = (IF r \in DOMAIN before THEN before[r] ELSE [i \in 1 .. n |-> -1])
    /\ \A q \in DOMAIN before : after[q] = before[q]

\* A stored list stays stored, and a slot of it changes only by a pin-command
\* frame decoded by the same session for that robot and pin.
Kept(before, after, s, subtype, len) ==
    \A r \in DOMAIN before :
        /\ r \in DOMAIN after
        /\ Len(after[r]) = Len(before[r])
        /\ \A i \in 1 .. Len(before[r]) :
             after[r][i] # before[r][i]
             => /\ FrameStep /\ lastOp'.self = s /\ lastOp'.err = "none"
                /\ lastOp'.frame.cmd = PIN_COMMANDS
                /\ Len(lastOp'.frame.data) = len
                /\ lastOp'.frame.data[1] = subtype
                /\ lastOp'.frame.data[len] = r
                /\ lastOp'.frame.data[len - 1] = i - 1
                /\ after[r][i] # -1

\* C5: the first pinAnalogValues(r) / pinDigitalValues(r) call of a session
\* stores a list of exactly the configured pin count filled with -1; every
\* later call returns the stored list with the values frames wrote into it;
\* a stored list is never dropped, re-created or reset to -1.
C5_LazyPinArrays ==
    [][\A s \in Sessions :
        /\ \A r \in RobotIds :
             /\ AccessorStep("pin_analog_value", s, r)
                => Returned(PinAnalogDict(s), PinAnalogDict(s)', r, NumAnalogPins)
             /\ AccessorStep("pin_digital_value", s, r)
                => Returned(PinDigitalDict(s), PinDigitalDict(s)', r, NumDigitalPins)
        /\ Kept(PinAnalogDict(s), PinAnalogDict(s)', s, PIN_GET_ANALOG, 5)
        /\ Kept(PinDigitalDict(s), PinDigitalDict(s)', s, PIN_GET_DIGITAL, 4)]_vars

\* The accessor was called after a frame had written 128 into the first slot:
\* the list it returns still holds it.
C5_Witness ==
    /\ lastOp.op = "pin_analog_value"
    /\ \E r \in RobotIds :
         /\ lastOp.frame.data = <<r>>
         /\ r \in DOMAIN PinAnalogDict(lastOp.self)
         /\ PinAnalogDict(lastOp.self)[r] =
                [i \in 1 .. NumAnalogPins |-> IF i = 1 THEN 128 ELSE -1]

\* Everything a caller can read about robot q through session s is the same
\* before and after the step.
RobotUntouched(s, q) ==
    /\ ReadNearestObstacle(s, q)' = ReadNearestObstacle(s, q)
    /\ ReadAnalogValue(s, q)' = ReadAnalogValue(s, q)
    /\ ReadDigitalValue(s, q)' = ReadDigitalValue(s, q)
    /\ ReadLiveRobots(s, q)' = ReadLiveRobots(s, q)
    /\ (q \in DOMAIN PinAnalogDict(s)') = (q \in DOMAIN PinAnalogDict(s))
    /\ (q \in DOMAIN PinDigitalDict(s)') = (q \in DOMAIN PinDigitalDict(s))
    /\ ListView(PinAnalogDict(s)', q, NumAnalogPins)
           = ListView(PinAnalogDict(s), q, NumAnalogPins)
    /\ ListView(PinDigitalDict(s)', q, NumDigitalPins)
           = ListView(PinDigitalDict(s), q, NumDigitalPins)

\* C6: a frame of one of the five extended commands that names robot r leaves
\* every state kind of every other robot as it was: the four scalars and the
\* per-pin analog and digital arrays, read through any session.
C6_DispatchIsolation ==
    [][\A f \in Frames :
        (/\ FrameStep /\ lastOp'.frame = f
         /\ f.cmd \in DOMAIN FiveHandlers /\ FrameRobots(f) # {})
        => \A q \in RobotIds \ FrameRobots(f), s \in Sessions :
               RobotUntouched(s, q)]_vars

\* A Ping for the last robot was decoded while the first robot had a per-pin
\* analog array holding 128.
C6_Witness ==
    /\ lastOp.op = "frame" /\ lastOp.err = "none"
    /\ lastOp.frame = Frame(SYSEX_PING, <<1, 0, NumRobots - 1>>)
    /\ 0 \in DOMAIN PinAnalogDict(lastOp.self)
    /\ PinAnalogDict(lastOp.self)[0][1] = 128
    /\ ReadNearestObstacle(lastOp.self, 0) = -1

\* C7: a frame with an identifier other than 0x03, 0x06, 0x07, 0x09, 0x0F, and
\* a Pin-commands frame of length >= 1 whose first byte is neither 0x01 nor
\* 0x02, raise nothing and leave the whole registry as it was: the scalars,
\* the isLive flags, the set of allocated per-pin arrays and their contents.
C7_UnknownIgnored ==
    [][\A f \in Frames :
        (/\ FrameStep /\ lastOp'.frame = f
         /\ \/ f.cmd \notin {3, 6, 7, 9, 15}
            \/ f.cmd = 15 /\ Len(f.data) >= 1 /\ f.data[1] \notin {1, 2})
        => /\ lastOp'.err = "none"
           /\ UNCHANGED <<nearest_obstacle, analog_value, digital_value,
                          live_robots, _pin_analog_value, _pin_digital_value>>]_vars

\* A pin command of subtype 3 was dispatched while the registry held a reading.
C7_Witness ==
    /\ lastOp.op = "frame" /\ lastOp.err = "none"
    /\ lastOp.frame = Frame(PIN_COMMANDS, <<3, 1, 0, 0, 0>>)
    /\ ReadNearestObstacle(lastOp.self, 0) = 128
    /\ PinDigitalDict(lastOp.self) = EmptyDict

\* The (msb, lsb) of the frame just decoded and the value its decoder stored.
DecodedPair ==
    IF lastOp.frame.cmd = PIN_COMMANDS
    THEN <<lastOp.frame.data[2], lastOp.frame.data[3]>>
    ELSE <<lastOp.frame.data[1], lastOp.frame.data[2]>>
DecodedValue ==
    CASE lastOp.frame.cmd = SYSEX_PING -> ReadNearestObstacle("serial", 0)
      [] lastOp.frame.cmd = ANALOG_INPUT_REQUEST -> ReadAnalogValue("serial", 0)
      [] lastOp.frame.cmd = PIN_COMMANDS -> PinAnalogDict("serial")[0][1]

\* C8: for all msb, lsb in 0..127 the value the ping, legacy analog and
\* get-analog decoders store lies in 0..16383, and splitting it again into
\* (v >> 7, v mod 128) gives back (msb, lsb).
C8_RoundTrip14 ==
    lastOp.op = "frame"
    => /\ lastOp.err = "none"
       /\ DecodedValue \in 0 .. 16383
       /\ <<DecodedValue \div 128, DecodedValue % 128>> = DecodedPair

\* The largest pair, (127, 127), was decoded by the get-analog pin command.
C8_Witness ==
    /\ lastOp.op = "frame"
    /\ lastOp.frame = Frame(PIN_COMMANDS, <<PIN_GET_ANALOG, 127, 127, 0, 0>>)
    /\ DecodedValue = 16383

\* Both sessions have been constructed.
BothConstructed == \A s \in Sessions : state[s] \in {"Ready", "Closed"}

ScalarsAgree(s, t) ==
    \A r \in RobotIds :
        /\ ReadNearestObstacle(s, r) = ReadNearestObstacle(t, r)
        /\ ReadAnalogValue(s, r) = ReadAnalogValue(t, r)
        /\ ReadDigitalValue(s, r) = ReadDigitalValue(t, r)
        /\ ReadLiveRobots(s, r) = ReadLiveRobots(t, r)

PinArraysAgree(s, t) ==
    \A r \in RobotIds :
        /\ ListView(PinAnalogDict(s), r, NumAnalogPins)
               = ListView(PinAnalogDict(t), r, NumAnalogPins)
        /\ ListView(PinDigitalDict(s), r, NumDigitalPins)
               = ListView(PinDigitalDict(t), r, NumDigitalPins)

ScalarVisible(f, t) ==
    CASE f.cmd = SYSEX_PING /\ Len(f.data) = 3 ->
             ReadNearestObstacle(t, f.data[3]) = f.data[1] * 128 + f.data[2]
      [] f.cmd = ANALOG_INPUT_REQUEST /\ Len(f.data) = 3 ->
             ReadAnalogValue(t, f.data[3]) = f.data[1] * 128 + f.data[2]
      [] f.cmd = DIGITAL_INPUT_REQUEST /\ Len(f.data) = 2 ->
             ReadDigitalValue(t, f.data[2]) = f.data[1]
      [] f.cmd = BROADCAST_REPORT /\ Len(f.data) = 1 ->
             ReadLiveRobots(t, f.data[1]) = 1
      [] OTHER -> TRUE

C10_OpenFailure ==
    /\ [](\A s \in Sessions :
            state[s] = "Failed"
            => /\ handlers[s] = NoHandlers
               /\ s \notin drained
               /\ outcome[s] \in {"raised", "exit"}
               /\ outcome[s] = "exit"
                  => process.status = "exited" /\ process.code # 0)
    /\ [][\A s \in Sessions :
            /\ state[s] = "Failed" => state'[s] = "Failed"
            /\ (state'[s] = "Failed" /\ state[s] # "Failed")
               => /\ state[s] = "Connecting"
                  /\ UNCHANGED <<nearest_obstacle, analog_value, digital_value,
                                 live_robots, _pin_analog_value,
                                 _pin_digital_value, handlers, drained>>
            /\ \A debug \in BOOLEAN :
                 OpenFails(s, debug)
                 => /\ state'[s] = "Failed"
                    /\ IF debug
                       THEN process' = process /\ outcome'[s] = "raised"
                       ELSE /\ process'.status = "exited" /\ process'.code # 0
                            /\ outcome'[s] = "exit"]_vars

\* The serial session failed in debug mode and the process went on; then the
\* TCP session failed without debug and the process ended with status 1.
C10_Witness ==
    /\ state = [s \in Sessions |-> "Failed"]
    /\ outcome["serial"] = "raised" /\ outcome["tcp"] = "exit"
    /\ process = [status |-> "exited", code |-> 1]

\* C11 as stated: on both paths of Initializing the five handlers are
\* registered before the first byte is drained through the dispatcher: a
\* session that has read a frame from its transport has the five handlers.
C11_HandlersBeforeFirstByte ==
    \A s \in Sessions : s \in drained => handlers[s] = FiveHandlers

\* C11 as amended: with a layout supplied the five handlers are registered
\* before the first frame is read; on the auto-discovery path they are
\* registered when the discovery ends, before the first frame of the drain
\* loop, and the frames the discovery itself reads meet an empty table and
\* leave the registry as it was.
C11_HandlersBeforeDrainLoop ==
    [][\A s \in Sessions :
          /\ (lastOp' # lastOp /\ lastOp'.op = "frame" /\ lastOp'.self = s)
                => /\ handlers[s] = FiveHandlers /\ handlers'[s] = FiveHandlers
                   /\ layout[s] \in {"set", "discovered"}
          /\ (lastOp' # lastOp /\ lastOp'.op = "discovery_frame" /\ lastOp'.self = s)
                => /\ layout[s] = "query" /\ handlers[s] = NoHandlers
                   /\ RegistryUnchanged
          /\ (state'[s] = "Initializing" /\ layout'[s] \in {"set", "discovered"}
              /\ handlers'[s] = NoHandlers) => s \notin drained'
          /\ (layout'[s] = "discovered" \/ state'[s] \in {"Ready", "Closed"})
                => handlers'[s] = FiveHandlers]_vars

\* A session that discovered its layout is still initializing and its drain
\* loop has decoded Ping(1, 0) for robot 0 through the registered handler.
C11_Witness ==
    \E s \in Sessions :
        /\ state[s] = "Initializing" /\ layout[s] = "discovered"
        /\ lastOp.op = "frame" /\ lastOp.self = s
        /\ lastOp.frame = Frame(SYSEX_PING, <<1, 0, 0>>)
        /\ ReadNearestObstacle(s, 0) = 128

\* C12: the initialization drain loop terminates and the session reaches
\* Ready also for a peer that closes or resets the TCP connection during
\* initialization: once the far end has closed and nothing is left to read,
\* the loop finds no data and the constructor can return.
C12_ClosedPeerEndsDrain ==
    \A s \in Sessions :
        (AtDrainLoop(s) /\ peer[s] = "closed") => ENABLED InitDone(s)

\* The binding the claim names for each of the five identifiers.
BoundAsSpecified(table) ==
    /\ DOMAIN table = {3, 6, 7, 9, 15}
    /\ table[3] = "_handle_sysex_ping"
    /\ table[6] = "_handle_sysex_analog"
    /\ table[7] = "_handle_sysex_digital"
    /\ table[9] = "_handle_sysex_broadcast"
    /\ table[15] = "_handle_sysex_pin_commands"

\* C13: the handlers are registered once per session: a session's table
\* changes only during its initialization and only from the empty table; when
\* initialization has completed 0x03, 0x06, 0x07, 0x09 and 0x0F are bound to
\* the ping, legacy analog, legacy digital, broadcast and pin-commands decoders,
\* and no later step (iterate, decoder, accessor, close) changes the table.
C13_RegisteredOnce ==
    [][\A s \in Sessions :
          /\ handlers'[s] # handlers[s]
                => handlers[s] = NoHandlers /\ state[s] = "Initializing"
          /\ state'[s] \in {"Ready", "Closed"} => BoundAsSpecified(handlers'[s])
          /\ state[s] \in {"Ready", "Closed"} => handlers'[s] = handlers[s]]_vars

\* A session decoded a frame after its initialization and was then closed.
C13_Witness ==
    \E s \in Sessions :
        /\ state[s] = "Closed" /\ BoundAsSpecified(handlers[s])
        /\ lastOp.op = "frame" /\ lastOp.self = s /\ lastOp.n = MaxSteps - 1

\* C14 as stated: a TCP-attached session never takes the auto-discovery path:
\* whatever its layout argument, no layout query is sent to the peer.
C14_TcpNeverDiscovers ==
    \A s \in SocketSessions : layout[s] \notin {"query", "discovered"}

\* C14 as amended: a session, TCP-attached or serial, takes the auto-discovery
\* path exactly when its layout argument is falsy: a supplied layout is
\* applied and stays, and no query is sent for it; a query is sent only from
\* a session constructed without a layout, and such a session gets its
\* handlers only through the discovery.
C14_DiscoveryIffNoLayout ==
    [][\A s \in Sessions :
          /\ layout[s] = "set" => layout'[s] = "set"
          /\ (layout'[s] = "query" /\ layout[s] # "query") => layout[s] = "none"
          /\ layout[s] = "none" => handlers'[s] = NoHandlers /\ layout'[s] # "set"
          /\ (handlers'[s] # handlers[s] /\ handlers[s] = NoHandlers)
                => layout'[s] \in {"set", "discovered"}]_vars

\* The TCP session was constructed without a layout, discovered one and is
\* Ready; the serial one was constructed with a layout and is Ready too.
C14_Witness ==
    /\ state["tcp"] = "Ready" /\ layout["tcp"] = "discovered"
    /\ state["serial"] = "Ready" /\ layout["serial"] = "set"

\* a | b and a << n on naturals, bit by bit.
RECURSIVE BitOr(_, _)
BitOr(a, b) ==
    IF a = 0 THEN b
    ELSE IF b = 0 THEN a
    ELSE (IF a % 2 = 1 \/ b % 2 = 1 THEN 1 ELSE 0) + 2 * BitOr(a \div 2, b \div 2)
ShiftLeft(a, n) == a * (2 ^ n)

\* C15: for all msb, lsb in 0..127 the value the ping, the legacy analog and
\* the get-analog decoder store, (msb << 7) + lsb, equals (msb << 7) | lsb.
C15_PlusIsOr ==
    lastOp.op = "frame"
    => DecodedValue = BitOr(ShiftLeft(DecodedPair[1], 7), DecodedPair[2])

\* The legacy analog decoder stored 16383 for (127, 127), which is
\* 16256 | 127.
C15_Witness ==
    /\ lastOp.op = "frame"
    /\ lastOp.frame = Frame(ANALOG_INPUT_REQUEST, <<127, 127, 0>>)
    /\ ReadAnalogValue("serial", 0) = 16383
    /\ BitOr(16256, 127) = 16383

Unknown14 == {-1} \cup (0 .. 16383)
Unknown7 == {-1} \cup (0 .. 127)

\* C16: in every reachable state, for every robot id, nearestObstacle and
\* legacyAnalogValue and every slot of every allocated per-pin analog array
\* are -1 or in 0..16383, legacyDigitalValue and every slot of every per-pin
\* digital array are -1 or in 0..127, and every allocated per-pin array has
\* exactly the configured number of slots.
C16_RegistryRanges ==
    \A s \in Sessions :
        /\ \A r \in RobotIds :
              /\ ReadNearestObstacle(s, r) \in Unknown14
              /\ ReadAnalogValue(s, r) \in Unknown14
              /\ ReadDigitalValue(s, r) \in Unknown7
        /\ \A r \in DOMAIN PinAnalogDict(s) :
              /\ Len(PinAnalogDict(s)[r]) = NumAnalogPins
              /\ \A i \in 1 .. Len(PinAnalogDict(s)[r]) :
                    PinAnalogDict(s)[r][i] \in Unknown14
        /\ \A r \in DOMAIN PinDigitalDict(s) :
              /\ Len(PinDigitalDict(s)[r]) = NumDigitalPins
              /\ \A i \in 1 .. Len(PinDigitalDict(s)[r]) :
                    PinDigitalDict(s)[r][i] \in Unknown7

\* The largest values are stored: 16383 as a nearest obstacle, and 127 in the
\* last slot of a per-pin digital array whose other slots are still -1.
C16_Witness ==
    \E s \in Sessions, r \in RobotIds :
        /\ ReadNearestObstacle(s, r) = 16383
        /\ r \in DOMAIN PinDigitalDict(s)
        /\ PinDigitalDict(s)[r][NumDigitalPins] = 127
        /\ PinDigitalDict(s)[r][1] = -1

\* C17 as stated: a decoder invocation that fails (short payload, or a pin
\* index past the configured pin count) leaves the whole registry as it was,
\* the set of robot ids with an allocated per-pin array included.
C17_FailedDecodeChangesNothing ==
    [][(FrameStep /\ lastOp'.err # "none") => RegistryUnchanged]_vars

\* The arrays a failed decoding of frame f by session s may have allocated in
\* session t: the addressed robot's, when f is a full pin command whose pin
\* index is past the end.
MayAllocateAnalog(s, t, f) ==
    IF t = s /\ f \in PinAnalogFrames /\ At(f.data, 3) >= NumAnalogPins
    THEN FrameRobots(f) ELSE {}
MayAllocateDigital(s, t, f) ==
    IF t = s /\ f \in PinDigitalFrames /\ At(f.data, 2) >= NumDigitalPins
    THEN FrameRobots(f) ELSE {}

\* C17 as amended: a decoder invocation that fails changes no scalar value,
\* no isLive flag and no slot of any per-pin array (an array not allocated
\* reading as all -1); with a short payload nothing at all changes; with a
\* pin index past the configured pin count the array of the addressed robot
\* is allocated in the decoding session, all -1, if it was not yet, and no
\* other array is allocated or removed.
C17_FailedDecodeKeepsValues ==
    [][(FrameStep /\ lastOp'.err # "none")
          => /\ UNCHANGED <<nearest_obstacle, analog_value, digital_value, live_robots>>
             /\ \A t \in Sessions :
                  /\ \A r \in RobotIds :
                        /\ ListView(PinAnalogDict(t)', r, NumAnalogPins)
                               = ListView(PinAnalogDict(t), r, NumAnalogPins)
                        /\ ListView(PinDigitalDict(t)', r, NumDigitalPins)
                               = ListView(PinDigitalDict(t), r, NumDigitalPins)
                  /\ DOMAIN PinAnalogDict(t) \subseteq DOMAIN PinAnalogDict(t)'
                  /\ DOMAIN PinDigitalDict(t) \subseteq DOMAIN PinDigitalDict(t)'
                  /\ (DOMAIN PinAnalogDict(t)') \ DOMAIN PinAnalogDict(t)
                         \subseteq MayAllocateAnalog(lastOp'.self, t, lastOp'.frame)
                  /\ (DOMAIN PinDigitalDict(t)') \ DOMAIN PinDigitalDict(t)
                         \subseteq MayAllocateDigital(lastOp'.self, t, lastOp'.frame)]_vars

\* The first frame a session read named analog pin NumAnalogPins of robot 0:
\* the decoder raised IndexError, and the array of robot 0 is allocated, all -1.
C17_Witness ==
    \E s \in Sessions :
        /\ lastOp.op = "frame" /\ lastOp.self = s /\ lastOp.n = 2
        /\ lastOp.frame = Frame(PIN_COMMANDS, <<PIN_GET_ANALOG, 1, 0, NumAnalogPins, 0>>)
        /\ lastOp.err = "IndexError" /\ outcome[s] = "IndexError"
        /\ 0 \in DOMAIN PinAnalogDict(s)
        /\ PinAnalogDict(s)[0] = Minus1List(NumAnalogPins)

\* The state kinds a frame may write: the store its decoder assigns to.
KindOf(f) ==
    CASE f.cmd = SYSEX_PING -> "nearest_obstacle"
      [] f.cmd = ANALOG_INPUT_REQUEST -> "analog_value"
      [] f.cmd = DIGITAL_INPUT_REQUEST -> "digital_value"
      [] f.cmd = BROADCAST_REPORT -> "live_robots"
      [] f.cmd = PIN_COMMANDS /\ InRange(f.data, 0) /\ At(f.data, 0) = PIN_GET_ANALOG
             -> "_pin_analog_value"
      [] f.cmd = PIN_COMMANDS /\ InRange(f.data, 0) /\ At(f.data, 0) = PIN_GET_DIGITAL
             -> "_pin_digital_value"
      [] OTHER -> "none"

\* C18: each decoder writes only its own state kind: a Ping frame changes
\* nothing but nearestObstacle, a legacy analog frame nothing but
\* legacyAnalogValue, a legacy digital frame nothing but legacyDigitalValue, a
\* Broadcast frame nothing but isLive, and a pin-command frame nothing but the
\* addressed robot's per-pin analog or digital array in the decoding session.
C18_OwnKindOnly ==
    [][FrameStep
          => /\ KindOf(lastOp'.frame) # "nearest_obstacle" => UNCHANGED nearest_obstacle
             /\ KindOf(lastOp'.frame) # "analog_value" => UNCHANGED analog_value
             /\ KindOf(lastOp'.frame) # "digital_value" => UNCHANGED digital_value
             /\ KindOf(lastOp'.frame) # "live_robots" => UNCHANGED live_robots
             /\ KindOf(lastOp'.frame) # "_pin_analog_value"
                   => UNCHANGED _pin_analog_value
             /\ KindOf(lastOp'.frame) # "_pin_digital_value"
                   => UNCHANGED _pin_digital_value
             /\ \A t \in Sessions, r \in RobotIds :
                  (t # lastOp'.self \/ r \notin FrameRobots(lastOp'.frame))
                  => /\ ListView(PinAnalogDict(t)', r, NumAnalogPins)
                            = ListView(PinAnalogDict(t), r, NumAnalogPins)
                     /\ ListView(PinDigitalDict(t)', r, NumDigitalPins)
                            = ListView(PinDigitalDict(t), r, NumDigitalPins)
                     /\ (r \in DOMAIN PinAnalogDict(t)') = (r \in DOMAIN PinAnalogDict(t))
                     /\ (r \in DOMAIN PinDigitalDict(t)')
                            = (r \in DOMAIN PinDigitalDict(t))]_vars

\* Robot 0 has a legacy analog value and a per-pin analog value that differ:
\* the legacy frame came last and left the per-pin array as it was.
C18_Witness ==
    \E s \in Sessions :
        /\ lastOp.op = "frame" /\ lastOp.self = s
        /\ lastOp.frame = Frame(ANALOG_INPUT_REQUEST, <<1, 0, 0>>)
        /\ ReadAnalogValue(s, 0) = 128
        /\ 0 \in DOMAIN PinAnalogDict(s)
        /\ PinAnalogDict(s)[0][1] = 16383
        /\ ReadNearestObstacle(s, 0) = -1

\* The slot a well-formed frame writes: kind, robot and (for a pin command)
\* pin; and the value it writes there.
SlotOf(f) ==
    CASE KindOf(f) = "_pin_analog_value" -> <<KindOf(f), At(f.data, 4), At(f.data, 3)>>
      [] KindOf(f) = "_pin_digital_value" -> <<KindOf(f), At(f.data, 3), At(f.data, 2)>>
      [] OTHER -> <<KindOf(f), At(f.data, RobotPos(f)), -1>>
ValueOf(f) ==
    CASE KindOf(f) \in {"nearest_obstacle", "analog_value"} ->
             At(f.data, 0) * 128 + At(f.data, 1)
      [] KindOf(f) = "_pin_analog_value" -> At(f.data, 1) * 128 + At(f.data, 2)
      [] KindOf(f) = "_pin_digital_value" -> At(f.data, 1)
      [] KindOf(f) = "digital_value" -> At(f.data, 0)
      [] KindOf(f) = "live_robots" -> 1
\* What a slot holds in registry reg, read through session s.
SlotValue(s, reg, slot) ==
    CASE slot[1] = "nearest_obstacle" ->
             reg.nearest_obstacle[AttrOwner(s, "nearest_obstacle")][slot[2]]
      [] slot[1] = "analog_value" -> reg.analog_value[AttrOwner(s, "analog_value")][slot[2]]
      [] slot[1] = "digital_value" ->
             reg.digital_value[AttrOwner(s, "digital_value")][slot[2]]
      [] slot[1] = "live_robots" -> reg.live_robots[AttrOwner(s, "live_robots")][slot[2]]
      [] slot[1] = "_pin_analog_value" ->
             reg._pin_analog_value[AttrOwner(s, "_pin_analog_value")][slot[2]][slot[3] + 1]
      [] slot[1] = "_pin_digital_value" ->
             reg._pin_digital_value[AttrOwner(s, "_pin_digital_value")][slot[2]][slot[3] + 1]

\* The registry after session s decoded f and then g, starting from reg.
Then(s, reg, f, g) ==
    Dispatch(s, handlers[s], Dispatch(s, handlers[s], reg, f).reg, g).reg

\* C19: from any registry state, two well-formed frames that write different
\* slots (different robots, different state kinds, or different pins of the
\* same robot) leave the same registry in either order; two frames that write
\* the same slot leave in it the value of the frame processed last.
C19_Commute ==
    \A f \in WellFormedFrames, g \in WellFormedFrames :
        /\ SlotOf(f) # SlotOf(g)
              => Then("serial", Registry, f, g) = Then("serial", Registry, g, f)
        /\ SlotOf(f) = SlotOf(g)
              => SlotValue("serial", Then("serial", Registry, f, g), SlotOf(g))
                     = ValueOf(g)

\* Pin 0 and the last analog pin of robot 0 were written one after the other,
\* and writing them once more in either order gives one and the same registry.
C19_Witness ==
    /\ lastOp.op = "frame" /\ lastOp.n = 3
    /\ lastOp.frame = Frame(PIN_COMMANDS, <<PIN_GET_ANALOG, 1, 0, NumAnalogPins - 1, 0>>)
    /\ PinAnalogDict("serial")[0][1] = 16383
    /\ PinAnalogDict("serial")[0][NumAnalogPins] = 128
    /\ Then("serial", Registry, Frame(PIN_COMMANDS, <<PIN_GET_ANALOG, 1, 0, 0, 0>>),
            Frame(PIN_COMMANDS, <<PIN_GET_ANALOG, 127, 127, NumAnalogPins - 1, 0>>))
         = Then("serial", Registry,
                Frame(PIN_COMMANDS, <<PIN_GET_ANALOG, 127, 127, NumAnalogPins - 1, 0>>),
                Frame(PIN_COMMANDS, <<PIN_GET_ANALOG, 1, 0, 0, 0>>))
====
